---- MODULE Spec2Model ----
(***************************************************************************)
(* Model of the panda_factor job runtime and log buffering subsystem.      *)
(*                                                                         *)
(*   - LogBatchManager / FactorAnalysisLogHandler                          *)
(*       src/panda_common/panda_common/handlers/log_handler.py             *)
(*   - run_factor / run_factor_analysis / get_task_logs / create_factor /  *)
(*     update_factor                                                       *)
(*       src/panda_factor_server/panda_factor_server/services/             *)
(*       user_factor_service.py                                            *)
(*   - factor_analysis                                                     *)
(*       src/panda_factor/panda_factor/analysis/factor_analysis.py         *)
(*                                                                         *)
(* Document-store collections are sequences of documents; a document's     *)
(* storage ordinal (_id) is its position in the sequence.  The log         *)
(* collection is only ever queried by task_id, so it is kept as one        *)
(* sequence per task_id, in storage order.  Every store call is one atomic *)
(* step; code between two store calls runs with the store call that        *)
(* follows it.                                                             *)
(***************************************************************************)
EXTENDS Integers, Sequences, FiniteSets, TLC

(* ------------------------------ bounds --------------------------------- *)
\* log records emitted per logging thread in the general log specification
MaxEmits == 2
\* log records emitted by the flooding thread in the threshold specification
MaxFlood == 51
\* urgent records emitted by the other thread in the threshold specification
MaxUrgent == 1
\* _chunk_date_range: the dates drawn are FirstDate and the MaxSpan days after it
MaxSpan == 120
\* create_factor / update_factor calls served by each request thread in the
\* factor specification
MaxCalls == 2

(* -------------------------- program constants -------------------------- *)
\* LogBatchManager.max_buffer_size
max_buffer_size == 50

NoThread == "none"
NoTime == 0
NoLevel == "none"

\* threads of the log specifications: the background flusher and one
\* logging thread per task
Flusher == "flusher"
Producers == {"p1", "p2"}

\* threads of the job specification: run i is served by the request thread
\* Req(i), which starts the background thread Wrk(i)
Runs == {1, 2}
Req(i) == IF i = 1 THEN "r1" ELSE "r2"
Wrk(i) == IF i = 1 THEN "w1" ELSE "w2"
\* the thread that calls LogBatchManager.shutdown
Main == "main"
Threads == {Flusher} \cup Producers \cup {Req(i) : i \in Runs} \cup {Wrk(i) : i \in Runs} \cup {Main}

\* task ids: run i generates the id i (uuid4) unless the client passes the
\* id of an existing task ("factor_id$task_id")
TaskIds == {1, 2}
NoTask == 0
ProducerTask(p) == IF p = "p1" THEN 1 ELSE 2

\* logging levels: one non-urgent and one urgent representative
Levels == {"INFO", "ERROR"}
AllLevels == {"DEBUG", "INFO", "WARNING", "ERROR", "CRITICAL"}
UrgentLevels == {"ERROR", "CRITICAL", "WARNING"}

VARIABLES
    tasks,         \* collection "tasks": sequence of task documents
    logs,          \* collection "factor_analysis_stage_logs", per task_id in storage order
    log_buffer,    \* LogBatchManager.log_buffer: sequence of [task_id, logs] in key insertion order
    buffer_lock,   \* LogBatchManager.buffer_lock: holder thread or NoThread
    handler_lock,  \* logging.Handler lock of each task's FactorAnalysisLogHandler
    stop_flag,     \* LogBatchManager.stop_flag
    emitted,       \* per task: number of records its handler has stamped (the clock reading)
    th,            \* per-thread control state
    user_factors,  \* collection "user_factors": sequence of factor documents
    results,       \* collection "factor_analysis_results": sequence of bundles
    run,           \* local variables of each run_factor call and its background thread
    call,          \* local variables of function calls outside the job and log threads
    classes        \* class attributes (_instance, _lock) and the objects constructed

logvars == <<logs, log_buffer, buffer_lock, handler_lock, stop_flag, emitted>>
jobvars == <<user_factors, results, run>>
vars == <<tasks, logs, log_buffer, buffer_lock, handler_lock, stop_flag, emitted, th,
          user_factors, results, run, call, classes>>

(* ------------------------------ helpers -------------------------------- *)
Range(s) == {s[i] : i \in DOMAIN s}

Last(s) == s[Len(s)]

\* the documents of the log collection ls whose task_id is t, in storage order
OfTask(ls, t) == ls[t]

\* the dict keys of log_buffer, in insertion order
BufferKeys(buf) == [i \in DOMAIN buf |-> buf[i].task_id]

HasKey(buf, t) == \E i \in DOMAIN buf : buf[i].task_id = t

\* log_buffer[task_id] (empty when the key is absent)
BufferOf(buf, t) ==
    IF HasKey(buf, t)
    THEN (CHOOSE r \in Range(buf) : r.task_id = t).logs
    ELSE <<>>

\* log_buffer[task_id] = q
SetBuffer(buf, t, q) ==
    IF HasKey(buf, t)
    THEN [i \in DOMAIN buf |-> IF buf[i].task_id = t THEN [buf[i] EXCEPT !.logs = q] ELSE buf[i]]
    ELSE Append(buf, [task_id |-> t, logs |-> q])

\* mongo_update("tasks", {"task_id": t}, {last_log_*}): update_many with $set
\* on every matching document
SetLastLog(ts, t, e) ==
    [i \in DOMAIN ts |->
        IF ts[i].task_id = t
        THEN [ts[i] EXCEPT !.last_log_time = e.timestamp,
                           !.last_log_level = e.level]
        ELSE ts[i]]

\* a task document as run_factor inserts it (process_status is not set).
\* ps_in_order records whether the values written to process_status so far
\* were 1, 2, 3, ... in this order.
Unset == -2
NewTask(tid, fid) ==
    [task_id |-> tid, factor_id |-> fid, status |-> 1, process_status |-> Unset,
     end_time |-> FALSE, error_message |-> FALSE,
     last_log_time |-> NoTime, last_log_level |-> NoLevel,
     ps_in_order |-> TRUE]

NoFactor == [user_id |-> "none"]

NoBody == [user_id |-> "none"]

\* the factor series has not been loaded
NoLoaded == [found |-> "none"]

IdleRun == [task_id |-> NoTask, factor_id |-> 0, factor |-> NoFactor, body |-> NoBody,
            result |-> "none", raised |-> FALSE, outcome |-> "none", calls |-> 0,
            loaded |-> NoLoaded]

\* None
NoInstance == 0

\* the class attributes before first use: DatabaseHandler._instance (line 132),
\* LogBatchManager._instance and _lock (lines 125-126), no object constructed
NoClasses ==
    [db_instance |-> NoInstance, db_objects |-> <<>>,
     lbm_instance |-> NoInstance, lbm_lock |-> NoThread, lbm_objects |-> <<>>]

\* no function call in progress
NoCall == [fn |-> "none"]

IdleThread == [pc |-> "idle", task |-> 0, htask |-> 0, ret |-> "none", cont |-> "idle",
               ftasks |-> <<>>, fsave |-> <<>>, fi |-> 0, n |-> 0]

(* --------------------------- LogBatchManager --------------------------- *)
\* add_log, lines 224-235: under buffer_lock append the entry
AddLogBuffer(buf, t, e) == SetBuffer(buf, t, Append(BufferOf(buf, t), e))

\* add_log, line 234: the threshold test after the append
AddLogAtThreshold(buf, t) == Len(BufferOf(buf, t)) >= max_buffer_size

\* FactorAnalysisLogHandler.emit by thread p on the handler of task t,
\* continuing at pc `cont` when emit returns (base is the thread table the
\* step starts from).
\*   - not urgent, below threshold: the whole emit is one step
\*   - threshold reached: the thread is inside add_log's `with buffer_lock`
\*     block and calls _flush_task_logs
\*   - urgent: the thread keeps the handler lock and calls flush_all
Emit(p, t, level, cont, base) ==
    /\ buffer_lock = NoThread
    /\ handler_lock[t] = NoThread
    /\ LET e == [task_id |-> t, timestamp |-> emitted[t] + 1, level |-> level]
           buf == AddLogBuffer(log_buffer, t, e)
           urgent == level \in UrgentLevels
       IN /\ emitted' = [emitted EXCEPT ![t] = @ + 1]
          /\ log_buffer' = buf
          /\ IF AddLogAtThreshold(buf, t)
             THEN /\ buffer_lock' = p
                  /\ handler_lock' = [handler_lock EXCEPT ![t] = p]
                  /\ th' = [base EXCEPT ![p] = [@ EXCEPT !.pc = "flush_take", !.task = t,
                                 !.htask = t, !.ftasks = <<>>, !.cont = cont, !.n = @ + 1,
                                 !.ret = IF urgent THEN "add_log_urgent" ELSE "add_log"]]
             ELSE IF urgent
             THEN /\ buffer_lock' = NoThread
                  /\ handler_lock' = [handler_lock EXCEPT ![t] = p]
                  /\ th' = [base EXCEPT ![p] = [@ EXCEPT !.pc = "flush_all", !.htask = t,
                                 !.cont = cont, !.n = @ + 1, !.ret = "emit"]]
             ELSE /\ UNCHANGED <<buffer_lock, handler_lock>>
                  /\ th' = [base EXCEPT ![p] = [@ EXCEPT !.pc = cont, !.n = @ + 1]]

\* The thread record and lock state after _flush_task_logs / flush_all
\* returned to its caller (rec is the thread record at that point, bl the
\* buffer_lock value).
\*   flush_all loop, line 378: next task id
\*   add_log, line 235: leave the `with` block (release buffer_lock), then
\*     emit line 547 calls flush_all for an urgent record
\*   emit, line 548: emit returns, Handler.handle releases the handler lock
\*   shutdown, line 408: shutdown returns
\*   _flush_loop, line 267: back to the loop test
AfterFlushRec(rec) ==
    IF rec.ftasks # <<>>
    THEN [rec EXCEPT !.pc = "flush_take", !.task = Head(rec.ftasks),
                     !.ftasks = Tail(rec.ftasks), !.fsave = <<>>, !.fi = 0]
    ELSE IF rec.ret = "add_log_urgent"
    THEN [rec EXCEPT !.pc = "flush_all", !.ret = "emit", !.fsave = <<>>, !.fi = 0, !.task = 0]
    ELSE IF rec.ret \in {"add_log", "emit"}
    THEN [rec EXCEPT !.pc = rec.cont, !.ret = "none", !.fsave = <<>>, !.fi = 0,
                     !.task = 0, !.htask = 0, !.cont = "idle"]
    ELSE IF rec.ret = "shutdown"
    THEN [rec EXCEPT !.pc = "returned", !.ret = "none", !.fsave = <<>>, !.fi = 0, !.task = 0]
    ELSE [rec EXCEPT !.pc = "loop", !.ret = "none", !.fsave = <<>>, !.fi = 0, !.task = 0]

AfterFlushBufferLock(p, rec, bl) ==
    IF rec.ftasks = <<>> /\ rec.ret \in {"add_log", "add_log_urgent"} /\ bl = p
    THEN NoThread ELSE bl

AfterFlushHandlerLock(rec, hl) ==
    IF rec.ftasks = <<>> /\ rec.ret \in {"add_log", "emit"}
    THEN [hl EXCEPT ![rec.htask] = NoThread] ELSE hl

\* flush_all, lines 374-375: list the keys under buffer_lock
FlushAll(p) ==
    /\ th[p].pc = "flush_all"
    /\ buffer_lock = NoThread
    /\ LET rec == [th[p] EXCEPT !.ftasks = BufferKeys(log_buffer)]
       IN /\ th' = [th EXCEPT ![p] = AfterFlushRec(rec)]
          /\ handler_lock' = AfterFlushHandlerLock(rec, handler_lock)
    /\ UNCHANGED <<tasks, logs, log_buffer, buffer_lock, stop_flag, call, classes, emitted, jobvars>>

\* _flush_task_logs, lines 300-308: under buffer_lock take the task's queue
\* and replace it by an empty one.  threading.Lock is not reentrant: the
\* acquire waits while any thread, the caller included, holds the lock.
FlushTake(p) ==
    /\ th[p].pc = "flush_take"
    /\ buffer_lock = NoThread
    /\ LET t == th[p].task
           q == BufferOf(log_buffer, t)
       IN IF q # <<>>
          THEN /\ log_buffer' = SetBuffer(log_buffer, t, <<>>)
               /\ th' = [th EXCEPT ![p] = [@ EXCEPT !.pc = "flush_insert", !.fsave = q, !.fi = 1]]
               /\ UNCHANGED handler_lock
          ELSE /\ th' = [th EXCEPT ![p] = AfterFlushRec(th[p])]
               /\ handler_lock' = AfterFlushHandlerLock(th[p], handler_lock)
               /\ UNCHANGED log_buffer
    /\ UNCHANGED <<tasks, logs, buffer_lock, stop_flag, call, classes, emitted, jobvars>>

\* _flush_task_logs, lines 311-327: one mongo_insert of the loop
FlushInsert(p) ==
    /\ th[p].pc = "flush_insert"
    /\ LET log_record == th[p].fsave[th[p].fi]
       IN logs' = [logs EXCEPT ![log_record.task_id] = Append(@, log_record)]
    /\ th' = [th EXCEPT ![p] = IF @.fi = Len(@.fsave)
                               THEN [@ EXCEPT !.pc = "flush_update"]
                               ELSE [@ EXCEPT !.fi = @ + 1]]
    /\ UNCHANGED <<tasks, log_buffer, buffer_lock, handler_lock, stop_flag, call, classes, emitted, jobvars>>

\* _flush_task_logs, lines 331-344: mirror the newest entry of the batch
\* into the task document
FlushUpdate(p) ==
    /\ th[p].pc = "flush_update"
    /\ LET latest_log == Last(th[p].fsave)
       IN tasks' = SetLastLog(tasks, latest_log.task_id, latest_log)
    /\ th' = [th EXCEPT ![p] = AfterFlushRec(th[p])]
    /\ handler_lock' = AfterFlushHandlerLock(th[p], handler_lock)
    /\ buffer_lock' = AfterFlushBufferLock(p, th[p], buffer_lock)
    /\ UNCHANGED <<logs, log_buffer, stop_flag, call, classes, emitted, jobvars>>

\* _flush_loop, lines 263-267: loop test, sleep, flush_all
FlushLoop ==
    /\ th[Flusher].pc = "loop"
    /\ th' = [th EXCEPT ![Flusher] = [@ EXCEPT !.pc = IF stop_flag THEN "stopped" ELSE "flush_all",
                                              !.ret = "timer"]]
    /\ UNCHANGED <<tasks, logs, log_buffer, buffer_lock, handler_lock, stop_flag, call, classes, emitted, jobvars>>

(* ------------------------- log specifications -------------------------- *)
\* a thread of the task logs one record on the task's logger
ProducerEmit(p, level) ==
    /\ th[p].pc = "idle"
    /\ Emit(p, ProducerTask(p), level, "idle", th)
    /\ UNCHANGED <<tasks, logs, stop_flag, call, classes, jobvars>>

InitLog ==
    /\ tasks = <<NewTask(1, 1), NewTask(2, 1)>>
    /\ logs = [t \in TaskIds |-> <<>>]
    /\ log_buffer = <<>>
    /\ buffer_lock = NoThread
    /\ handler_lock = [t \in TaskIds |-> NoThread]
    /\ stop_flag = FALSE
    /\ emitted = [t \in TaskIds |-> 0]
    /\ th = [p \in Threads |-> IF p = Flusher THEN [IdleThread EXCEPT !.pc = "loop"] ELSE IdleThread]
    /\ user_factors = <<>>
    /\ results = <<>>
    /\ run = [i \in Runs |-> IdleRun]
    /\ call = NoCall
    /\ classes = NoClasses

Log ==
    \E p \in Producers : \E level \in Levels :
        th[p].n < MaxEmits /\ ProducerEmit(p, level)

FlushStep ==
    \E p \in Threads : FlushAll(p) \/ FlushTake(p) \/ FlushInsert(p) \/ FlushUpdate(p)

NextLog == Log \/ FlushStep \/ FlushLoop

SpecLog == InitLog /\ [][NextLog]_vars

\* threshold specification: no timer flush; p1 floods task 1 with non-urgent
\* records, p2 logs urgent records on task 2
Flood == th["p1"].n < MaxFlood /\ ProducerEmit("p1", "INFO")

UrgentLog == th["p2"].n < MaxUrgent /\ ProducerEmit("p2", "ERROR")

InitThreshold ==
    /\ tasks = <<NewTask(1, 1), NewTask(2, 1)>>
    /\ logs = [t \in TaskIds |-> <<>>]
    /\ log_buffer = <<>>
    /\ buffer_lock = NoThread
    /\ handler_lock = [t \in TaskIds |-> NoThread]
    /\ stop_flag = FALSE
    /\ emitted = [t \in TaskIds |-> 0]
    /\ th = [p \in Threads |-> IdleThread]
    /\ user_factors = <<>>
    /\ results = <<>>
    /\ run = [i \in Runs |-> IdleRun]
    /\ call = NoCall
    /\ classes = NoClasses

NextThreshold == Flood \/ UrgentLog \/ FlushStep

SpecThreshold == InitThreshold /\ [][NextThreshold]_vars

FairThreshold == SpecThreshold /\ WF_vars(NextThreshold)

(* ------------------------------ run_factor ----------------------------- *)
\* parameter records: one that passes validate_factor_params and variants
\* that each break one check
ValidParams ==
    [start_date |-> "2024-01-01", end_date |-> "2024-12-31", adjustment_cycle |-> 5,
     stock_pool |-> "000300", group_number |-> 10, extreme_value_processing |-> "std"]

ParamChoices ==
    {ValidParams,
     [ValidParams EXCEPT !.adjustment_cycle = 7],
     [ValidParams EXCEPT !.stock_pool = "000001"],
     [ValidParams EXCEPT !.group_number = 21],
     [ValidParams EXCEPT !.group_number = 1],
     [ValidParams EXCEPT !.extreme_value_processing = "mean"],
     [ValidParams EXCEPT !.end_date = ""]}

\* validate_factor_params, lines 693-747 (code_valid is the verdict of
\* MacroFactor.validate_factor on the factor's code; "biaozhuncha" and
\* "zhongweishu" stand for the two Chinese method names of line 714)
validate_factor_params(factor) ==
    LET params == factor.params
    IN /\ params.adjustment_cycle \in {1, 3, 5, 10, 20, 30}
       /\ params.stock_pool \in {"000300", "000905", "000852", "000985"}
       /\ 2 <= params.group_number /\ params.group_number <= 20
       /\ params.extreme_value_processing \in {"biaozhuncha", "std", "zhongweishu", "median"}
       /\ params.start_date # ""
       /\ params.end_date # ""
       /\ factor.code_valid

\* the write of value k to a process_status holding old continues 1, 2, 3, ...
InOrder(old, k) == IF old = Unset THEN k = 1 ELSE k = old + 1

\* collection.update_many(query, {'$set': update}): the fields of the update
\* replace those of the document, the others stay
SetFields(doc, update) ==
    [f \in DOMAIN doc |-> IF f \in DOMAIN update THEN update[f] ELSE doc[f]]

\* mongo_update("tasks", {"task_id": t}, update): every matching document
\* (ps_in_order follows the writes to process_status)
UpdateTasks(ts, t, update) ==
    [k \in DOMAIN ts |->
        IF ts[k].task_id = t
        THEN IF "process_status" \in DOMAIN update
             THEN SetFields(ts[k], update @@
                      [ps_in_order |-> ts[k].ps_in_order
                                         /\ InOrder(ts[k].process_status, update.process_status)])
             ELSE SetFields(ts[k], update)
        ELSE ts[k]]

\* mongo_update("user_factors", {"_id": f}, update)
UpdateFactor(fs, f, update) ==
    [k \in DOMAIN fs |-> IF k = f THEN SetFields(fs[k], update) ELSE fs[k]]

\* the emit of a non-urgent record returns within the step that makes it
EmitReturns(t) ==
    Len(BufferOf(log_buffer, t)) + 1 < max_buffer_size

\* run_factor, lines 798-823: parse message_id, get the task's logger, look
\* the factor up; 404 when it does not exist
RunFactorFind(i, t, fid) ==
    /\ th[Req(i)].pc = "idle"
    /\ run[i].result = "none"
    /\ t = i \/ \E k \in DOMAIN tasks : tasks[k].task_id = t
    /\ IF fid \in DOMAIN user_factors
       THEN /\ th' = [th EXCEPT ![Req(i)] = [@ EXCEPT !.pc = "r_insert"]]
            /\ run' = [run EXCEPT ![i] = [@ EXCEPT !.task_id = t, !.factor_id = fid,
                                                  !.factor = user_factors[fid]]]
            /\ UNCHANGED <<log_buffer, buffer_lock, handler_lock, emitted>>
       ELSE /\ Emit(Req(i), t, "WARNING", "done", th)
            /\ run' = [run EXCEPT ![i] = [@ EXCEPT !.task_id = t, !.factor_id = fid,
                                                  !.result = "404"]]
    /\ UNCHANGED <<tasks, logs, stop_flag, call, classes, user_factors, results>>

\* run_factor, lines 836-855: insert the task document
RunFactorInsert(i) ==
    /\ th[Req(i)].pc = "r_insert"
    /\ tasks' = Append(tasks, NewTask(run[i].task_id, run[i].factor_id))
    /\ th' = [th EXCEPT ![Req(i)] = [@ EXCEPT !.pc = "r_update"]]
    /\ UNCHANGED <<logvars, call, classes, jobvars>>

\* run_factor, lines 857-869: mark the factor as running
RunFactorUpdate(i) ==
    /\ th[Req(i)].pc = "r_update"
    /\ user_factors' = UpdateFactor(user_factors, run[i].factor_id,
                                     [status |-> 1, current_task_id |-> run[i].task_id])
    /\ th' = [th EXCEPT ![Req(i)] = [@ EXCEPT !.pc = "r_validate"]]
    /\ UNCHANGED <<tasks, logvars, call, classes, results, run>>

\* run_factor, lines 871-892: validate the factor read at lines 817-823;
\* 400 on failure, otherwise start the background thread and return
RunFactorValidate(i) ==
    /\ th[Req(i)].pc = "r_validate"
    /\ IF validate_factor_params(run[i].factor)
       THEN /\ th' = [th EXCEPT ![Req(i)] = [@ EXCEPT !.pc = "done"],
                                ![Wrk(i)] = [@ EXCEPT !.pc = "w_load"]]
            /\ run' = [run EXCEPT ![i] = [@ EXCEPT !.result = "started"]]
            /\ UNCHANGED <<log_buffer, buffer_lock, handler_lock, emitted>>
       ELSE /\ Emit(Req(i), run[i].task_id, "ERROR", "done", th)
            /\ run' = [run EXCEPT ![i] = [@ EXCEPT !.result = "400"]]
    /\ UNCHANGED <<tasks, logs, stop_flag, call, classes, user_factors, results>>

(* ------------------- run_factor_analysis / factor_analysis ------------- *)
\* the store writes of the background thread in program order:
\* factor_analysis lines 194, 235, 270, 306, 332, 354, 378, 441 (process_status
\* 1..8), 450 (bundle), 462 (process_status 9), run_factor_analysis lines 978
\* (task) and 991 (factor)
StageOf(pc) ==
    CASE pc = "w_ps1" -> 1 [] pc = "w_ps2" -> 2 [] pc = "w_ps3" -> 3
      [] pc = "w_ps4" -> 4 [] pc = "w_ps5" -> 5 [] pc = "w_ps6" -> 6
      [] pc = "w_ps7" -> 7 [] pc = "w_ps8" -> 8 [] pc = "w_ps9" -> 9

StagePcs == {"w_ps1", "w_ps2", "w_ps3", "w_ps4", "w_ps5", "w_ps6", "w_ps7", "w_ps8", "w_ps9"}

\* the order in which process_status 9 would be written before the bundle
NextPc_FinalBeforeBundle(pc) ==
    CASE pc = "w_ps1" -> "w_ps2" [] pc = "w_ps2" -> "w_ps3" [] pc = "w_ps3" -> "w_ps4"
      [] pc = "w_ps4" -> "w_ps5" [] pc = "w_ps5" -> "w_ps6" [] pc = "w_ps6" -> "w_ps7"
      [] pc = "w_ps7" -> "w_ps8" [] pc = "w_ps8" -> "w_ps9" [] pc = "w_ps9" -> "w_bundle"
      [] pc = "w_bundle" -> "w_task_done" [] pc = "w_task_done" -> "w_factor_done"
      [] pc = "w_factor_done" -> "done"

NextPc(pc) ==
    CASE pc = "w_ps1" -> "w_ps2" [] pc = "w_ps2" -> "w_ps3" [] pc = "w_ps3" -> "w_ps4"
      [] pc = "w_ps4" -> "w_ps5" [] pc = "w_ps5" -> "w_ps6" [] pc = "w_ps6" -> "w_ps7"
      [] pc = "w_ps7" -> "w_ps8" [] pc = "w_ps8" -> "w_bundle" [] pc = "w_bundle" -> "w_ps9"
      [] pc = "w_ps9" -> "w_task_done" [] pc = "w_task_done" -> "w_factor_done"
      [] pc = "w_factor_done" -> "done"

\* the places of factor_analysis's try block where the computation that
\* precedes the store write can raise (lines 214-455)
RaisePcs == {"w_ps2", "w_ps3", "w_ps4", "w_ps5", "w_ps6", "w_ps7", "w_ps8", "w_bundle"}

\* get_custom_factor, factor_reader.py lines 557-580: the definition is read
\* from user_factors by (user_id, factor_name) when the series is loaded; the
\* first record found gives code, stock_pool and include_st; None when there
\* is no such record
get_custom_factor(fs, user_id, factor_name) ==
    LET found == {k \in DOMAIN fs : fs[k].user_id = user_id /\ fs[k].factor_name = factor_name}
    IN IF found = {}
       THEN [found |-> "no"]
       ELSE LET k == CHOOSE m \in found : \A n \in found : m <= n
            IN [found |-> "yes", code_valid |-> fs[k].code_valid, params |-> fs[k].params]

\* run_factor_analysis, lines 947-970: load the factor series.
\*   "ok":    a non-empty frame, factor_analysis is called
\*   "empty": an empty frame, lines 968-970 log an error and return
\*   "none":  get_custom_factor returned None (factor_reader.py lines 527-645),
\*            line 963 raises and the handler of lines 1003-1005 runs
FactorLoad(i, outcome) ==
    /\ th[Wrk(i)].pc = "w_load"
    /\ LET loaded == get_custom_factor(user_factors, run[i].factor.user_id,
                                       run[i].factor.factor_name)
       IN /\ loaded.found = "no" => outcome = "none"
          /\ CASE outcome = "ok" ->
                    /\ th' = [th EXCEPT ![Wrk(i)] = [@ EXCEPT !.pc = "w_ps1"]]
                    /\ run' = [run EXCEPT ![i] = [@ EXCEPT !.loaded = loaded]]
                    /\ UNCHANGED <<log_buffer, buffer_lock, handler_lock, emitted>>
               [] outcome = "empty" ->
                    /\ Emit(Wrk(i), run[i].task_id, "ERROR", "done", th)
                    /\ run' = [run EXCEPT ![i] = [@ EXCEPT !.outcome = "empty", !.loaded = loaded]]
               [] outcome = "none" ->
                    /\ Emit(Wrk(i), run[i].task_id, "ERROR", "w_fail_task", th)
                    /\ run' = [run EXCEPT ![i] = [@ EXCEPT !.raised = TRUE, !.loaded = loaded]]
    /\ UNCHANGED <<tasks, logs, stop_flag, call, classes, user_factors, results>>

\* factor_analysis: one process_status write
AnalysisStage(i) ==
    /\ th[Wrk(i)].pc \in StagePcs
    /\ tasks' = UpdateTasks(tasks, run[i].task_id, [process_status |-> StageOf(th[Wrk(i)].pc)])
    /\ th' = [th EXCEPT ![Wrk(i)] = [@ EXCEPT !.pc = NextPc(th[Wrk(i)].pc)]]
    /\ UNCHANGED <<logvars, call, classes, jobvars>>

\* factor.inset_to_database (panda_factor.analysis.factor): the result bundle
\* of the task is added to the result store, keyed by task_id
inset_to_database(rs, task_id) == Append(rs, [task_id |-> task_id])

\* factor_analysis, lines 450-459: inset_to_database writes the result bundle,
\* then the completion records are logged
BundleWrite(i) ==
    /\ th[Wrk(i)].pc = "w_bundle"
    /\ EmitReturns(run[i].task_id)
    /\ results' = inset_to_database(results, run[i].task_id)
    /\ Emit(Wrk(i), run[i].task_id, "DEBUG", NextPc("w_bundle"), th)
    /\ UNCHANGED <<tasks, logs, stop_flag, call, classes, user_factors, run>>

\* factor_analysis: a computation of the try block raises; the stage's
\* handler and the handler of lines 472-475 log the error
AnalysisRaise(i) ==
    /\ th[Wrk(i)].pc \in RaisePcs
    /\ Emit(Wrk(i), run[i].task_id, "ERROR", "w_fail_ps", th)
    /\ run' = [run EXCEPT ![i] = [@ EXCEPT !.raised = TRUE]]
    /\ UNCHANGED <<tasks, logs, stop_flag, call, classes, user_factors, results>>

\* factor_analysis, lines 477-487: process_status = -1 and re-raise;
\* run_factor_analysis, lines 1003-1005: log the error
FailStage(i) ==
    /\ th[Wrk(i)].pc = "w_fail_ps"
    /\ tasks' = UpdateTasks(tasks, run[i].task_id, [process_status |-> -1, error_message |-> TRUE])
    /\ Emit(Wrk(i), run[i].task_id, "ERROR", "w_fail_task", th)
    /\ UNCHANGED <<logs, stop_flag, call, classes, jobvars>>

\* run_factor_analysis, lines 1008-1018: task status failed
FailTask(i) ==
    /\ th[Wrk(i)].pc = "w_fail_task"
    /\ tasks' = UpdateTasks(tasks, run[i].task_id,
                            [status |-> 3, end_time |-> TRUE, error_message |-> TRUE])
    /\ th' = [th EXCEPT ![Wrk(i)] = [@ EXCEPT !.pc = "w_fail_factor"]]
    /\ UNCHANGED <<logvars, call, classes, jobvars>>

\* run_factor_analysis, lines 1021-1031: factor status failed
FailFactor(i) ==
    /\ th[Wrk(i)].pc = "w_fail_factor"
    /\ user_factors' = UpdateFactor(user_factors, run[i].factor_id, [status |-> 3])
    /\ th' = [th EXCEPT ![Wrk(i)] = [@ EXCEPT !.pc = "done"]]
    /\ run' = [run EXCEPT ![i] = [@ EXCEPT !.outcome = "failed"]]
    /\ UNCHANGED <<tasks, logvars, call, classes, results>>

\* run_factor_analysis, lines 978-988: task status succeeded
TaskDone(i) ==
    /\ th[Wrk(i)].pc = "w_task_done"
    /\ tasks' = UpdateTasks(tasks, run[i].task_id, [status |-> 2, end_time |-> TRUE])
    /\ th' = [th EXCEPT ![Wrk(i)] = [@ EXCEPT !.pc = NextPc("w_task_done")]]
    /\ UNCHANGED <<logvars, call, classes, jobvars>>

\* run_factor_analysis, lines 991-1002: factor status succeeded
FactorDone(i) ==
    /\ th[Wrk(i)].pc = "w_factor_done"
    /\ user_factors' = UpdateFactor(user_factors, run[i].factor_id,
                                     [status |-> 2, current_task_id |-> run[i].task_id])
    /\ th' = [th EXCEPT ![Wrk(i)] = [@ EXCEPT !.pc = NextPc("w_factor_done")]]
    /\ run' = [run EXCEPT ![i] = [@ EXCEPT !.outcome = "succeeded"]]
    /\ UNCHANGED <<tasks, logvars, call, classes, results>>

(* --------------------------- job specification ------------------------- *)
NewFactor(params, code_valid) ==
    [user_id |-> "u1", factor_name |-> "f1", code_valid |-> code_valid, params |-> params,
     status |-> 0, current_task_id |-> NoTask]

InitJob ==
    /\ tasks = <<>>
    /\ logs = [t \in TaskIds |-> <<>>]
    /\ log_buffer = <<>>
    /\ buffer_lock = NoThread
    /\ handler_lock = [t \in TaskIds |-> NoThread]
    /\ stop_flag = FALSE
    /\ emitted = [t \in TaskIds |-> 0]
    /\ th = [p \in Threads |-> IdleThread]
    /\ \E params \in ParamChoices : \E code_valid \in BOOLEAN :
           /\ (params = ValidParams \/ code_valid)
           /\ user_factors = <<NewFactor(params, code_valid)>>
    /\ results = <<>>
    /\ run = [i \in Runs |-> IdleRun]
    /\ call = NoCall
    /\ classes = NoClasses

RunFactor ==
    \E i \in Runs :
        \/ \E t \in TaskIds : \E fid \in {1, 2} : RunFactorFind(i, t, fid)
        \/ RunFactorInsert(i)
        \/ RunFactorUpdate(i)
        \/ RunFactorValidate(i)

RunFactorAnalysis ==
    \E i \in Runs :
        \/ \E outcome \in {"ok", "empty", "none"} : FactorLoad(i, outcome)
        \/ AnalysisStage(i)
        \/ BundleWrite(i)
        \/ AnalysisRaise(i)
        \/ FailStage(i)
        \/ FailTask(i)
        \/ FailFactor(i)
        \/ TaskDone(i)
        \/ FactorDone(i)

JobFlush == FlushStep

NextJob == RunFactor \/ RunFactorAnalysis \/ JobFlush

SpecJob == InitJob /\ [][NextJob]_vars

(* --------------------- create_factor / update_factor ------------------- *)
Users == {"u1", "u2"}
FactorNames == {"f1", "f2"}

\* request bodies (CreateFactorRequest)
Bodies ==
    {[user_id |-> u, factor_name |-> nm, code_valid |-> TRUE, params |-> ValidParams, status |-> 0] :
        u \in Users, nm \in FactorNames}

NoExclude == 0

\* check_factor_exists, lines 101-129
check_factor_exists(fs, user_id, factor_name, exclude_id) ==
    \E k \in DOMAIN fs :
        /\ fs[k].user_id = user_id
        /\ fs[k].factor_name = factor_name
        /\ (exclude_id # NoExclude => k # exclude_id)

\* the document create_factor inserts: the request's fields (lines 429-433)
FactorDoc(body) ==
    [user_id |-> body.user_id, factor_name |-> body.factor_name,
     code_valid |-> body.code_valid, params |-> body.params,
     status |-> body.status, current_task_id |-> NoTask]

Return(i, code) == [run EXCEPT ![i] = [@ EXCEPT !.result = code, !.calls = @ + 1]]

\* create_factor, lines 423-426: 409 when the name is taken
CreateFactorCheck(i, body) ==
    /\ th[Req(i)].pc = "idle"
    /\ run[i].calls < MaxCalls
    /\ IF check_factor_exists(user_factors, body.user_id, body.factor_name, NoExclude)
       THEN /\ run' = Return(i, "409")
            /\ UNCHANGED th
       ELSE /\ run' = [run EXCEPT ![i] = [@ EXCEPT !.body = body, !.result = "none"]]
            /\ th' = [th EXCEPT ![Req(i)] = [@ EXCEPT !.pc = "c_insert"]]
    /\ UNCHANGED <<tasks, logvars, call, classes, user_factors, results>>

\* create_factor, lines 429-441: insert the factor document
CreateFactorInsert(i) ==
    /\ th[Req(i)].pc = "c_insert"
    /\ user_factors' = Append(user_factors, FactorDoc(run[i].body))
    /\ run' = Return(i, "200")
    /\ th' = [th EXCEPT ![Req(i)] = [@ EXCEPT !.pc = "idle"]]
    /\ UNCHANGED <<tasks, logvars, call, classes, results>>

\* update_factor, lines 531-537: 404 when the factor does not exist
UpdateFactorFind(i, fid, body) ==
    /\ th[Req(i)].pc = "idle"
    /\ run[i].calls < MaxCalls
    /\ IF fid \in DOMAIN user_factors
       THEN /\ run' = [run EXCEPT ![i] = [@ EXCEPT !.body = body, !.factor_id = fid,
                                                  !.result = "none"]]
            /\ th' = [th EXCEPT ![Req(i)] = [@ EXCEPT !.pc = "u_check"]]
       ELSE /\ run' = Return(i, "404")
            /\ UNCHANGED th
    /\ UNCHANGED <<tasks, logvars, call, classes, user_factors, results>>

\* update_factor, lines 540-541: 409 when another factor has the name
UpdateFactorCheck(i) ==
    /\ th[Req(i)].pc = "u_check"
    /\ IF check_factor_exists(user_factors, run[i].body.user_id, run[i].body.factor_name,
                              run[i].factor_id)
       THEN /\ run' = Return(i, "409")
            /\ th' = [th EXCEPT ![Req(i)] = [@ EXCEPT !.pc = "idle"]]
       ELSE /\ th' = [th EXCEPT ![Req(i)] = [@ EXCEPT !.pc = "u_update"]]
            /\ UNCHANGED run
    /\ UNCHANGED <<tasks, logvars, call, classes, user_factors, results>>

\* update_factor, lines 544-557: $set every field of the request body
UpdateFactorWrite(i) ==
    /\ th[Req(i)].pc = "u_update"
    /\ user_factors' = UpdateFactor(user_factors, run[i].factor_id, run[i].body)
    /\ run' = Return(i, "200")
    /\ th' = [th EXCEPT ![Req(i)] = [@ EXCEPT !.pc = "idle"]]
    /\ UNCHANGED <<tasks, logvars, call, classes, results>>

InitFactor ==
    /\ tasks = <<>>
    /\ logs = [t \in TaskIds |-> <<>>]
    /\ log_buffer = <<>>
    /\ buffer_lock = NoThread
    /\ handler_lock = [t \in TaskIds |-> NoThread]
    /\ stop_flag = FALSE
    /\ emitted = [t \in TaskIds |-> 0]
    /\ th = [p \in Threads |-> IdleThread]
    /\ user_factors = <<>>
    /\ results = <<>>
    /\ run = [i \in Runs |-> IdleRun]
    /\ call = NoCall
    /\ classes = NoClasses

CreateFactor ==
    \E i \in Runs : (\E body \in Bodies : CreateFactorCheck(i, body)) \/ CreateFactorInsert(i)

UpdateFactorCall ==
    \E i \in Runs :
        \/ \E fid \in 1..(Len(user_factors) + 1) : \E body \in Bodies : UpdateFactorFind(i, fid, body)
        \/ UpdateFactorCheck(i)
        \/ UpdateFactorWrite(i)

NextFactor == CreateFactor \/ UpdateFactorCall

SpecFactor == InitFactor /\ [][NextFactor]_vars

(* ---------------------------- get_task_logs ---------------------------- *)
NoLogId == 0

\* storage ordinals of the log documents matching the query of lines
\* 1084-1087: {"task_id": task_id} and, when last_log_id is given,
\* {"_id": {"$gt": last_log_id}}
MatchingLogIds(ls, task_id, last_log_id) ==
    {i \in DOMAIN OfTask(ls, task_id) : last_log_id = NoLogId \/ i > last_log_id}

\* sort=[("timestamp", 1)], line 1094: the matching ordinals in ascending
\* timestamp order, ties in storage order
RECURSIVE SortByTimestamp(_, _)
SortByTimestamp(ls, ids) ==
    IF ids = {} THEN <<>>
    ELSE LET first == CHOOSE i \in ids : \A j \in ids :
                          \/ ls[i].timestamp < ls[j].timestamp
                          \/ (ls[i].timestamp = ls[j].timestamp /\ i <= j)
         IN <<first>> \o SortByTimestamp(ls, ids \ {first})

\* get_task_logs, lines 1080-1117: the entries and the echoed last_log_id
\* (the _id of the last document of the sorted result, line 1108)
get_task_logs(ls, task_id, last_log_id) ==
    LET found == SortByTimestamp(OfTask(ls, task_id), MatchingLogIds(ls, task_id, last_log_id))
    IN [logs |-> [k \in DOMAIN found |-> OfTask(ls, task_id)[found[k]]],
        ids |-> found,
        last_log_id |-> IF found # <<>> THEN Last(found) ELSE NoLogId]

(* ------------------------------- claims -------------------------------- *)
\* C6 (as claimed): threshold flush.  Once max_buffer_size records are queued
\* for task 1 and nothing of task 1 was flushed before, the add_log call that
\* queued the last of them flushes: the log collection comes to hold exactly
\* those records in enqueue order, the task's last_log_* fields are those of
\* the newest, the queue is empty and the call has returned.
ThresholdReached ==
    /\ Len(BufferOf(log_buffer, 1)) = max_buffer_size
    /\ emitted[1] = max_buffer_size

ThresholdFlushed ==
    /\ th["p1"].pc = "idle"
    /\ BufferOf(log_buffer, 1) = <<>>
    /\ Len(OfTask(logs, 1)) >= max_buffer_size
    /\ \A k \in 1..max_buffer_size : OfTask(logs, 1)[k].timestamp = k
    /\ tasks[1].last_log_time >= max_buffer_size

C6_ThresholdFlushReturns == ThresholdReached ~> ThresholdFlushed

\* C7 (as claimed): the log documents of every task are stored in the order
\* in which add_log queued them.
C7_FlushInEnqueueOrder ==
    \A t \in TaskIds :
        LET stored == OfTask(logs, t)
        IN \A i, j \in DOMAIN stored : i < j => stored[i].timestamp < stored[j].timestamp

\* C8 (as claimed): an incremental read returns the entries stored after
\* last_log_id and echoes the largest storage ordinal among them, so that
\* the read continued from the echoed ordinal returns no entry again.
C8_EchoIsMaxOrdinal ==
    \A t \in TaskIds : \A last \in 0..Len(OfTask(logs, t)) :
        LET r == get_task_logs(logs, t, last)
        IN /\ Range(r.ids) = {i \in DOMAIN OfTask(logs, t) : i > last}
           /\ r.logs # <<>> =>
                /\ \A i \in Range(r.ids) : i <= r.last_log_id
                /\ Range(get_task_logs(logs, t, r.last_log_id).ids) \cap Range(r.ids) = {}

(* ------------------------------ job claims ----------------------------- *)
HasBundle(t) == \E r \in DOMAIN results : results[r].task_id = t

TasksOf(t) == {k \in DOMAIN tasks : tasks[k].task_id = t}

\* C1: in every reachable state a task record with status succeeded (2) or
\* process_status 9 has a result bundle for its task_id in the result store
\* (equivalently: while there is no bundle, a reader sees neither status 2 nor
\* process_status 9).
C1_BundleBeforeSucceeded ==
    \A k \in DOMAIN tasks :
        (tasks[k].status = 2 \/ tasks[k].process_status = 9) => HasBundle(tasks[k].task_id)

\* a task observed as succeeded, with process_status 9 and its bundle stored
C1_SucceededWithBundle ==
    \E k \in DOMAIN tasks :
        tasks[k].status = 2 /\ tasks[k].process_status = 9 /\ HasBundle(tasks[k].task_id)

\* C2 (as claimed): when run_factor returned the validation error, the tasks
\* collection holds no task record of that call.
C2_RejectedRunHasNoTask ==
    \A i \in Runs : run[i].result = "400" => TasksOf(run[i].task_id) = {}

\* C3 (as claimed): when the background thread finishes after an exception,
\* the task record has status failed (3), process_status -1, an error_message
\* and an end_time, and the factor's status is failed (3).
C3_FailureRecorded ==
    [][\A i \in Runs :
          (th[Wrk(i)].pc = "w_fail_factor" /\ th'[Wrk(i)].pc = "done") =>
              /\ \A k \in TasksOf(run[i].task_id) :
                    /\ tasks'[k].status = 3
                    /\ tasks'[k].process_status = -1
                    /\ tasks'[k].error_message
                    /\ tasks'[k].end_time
              /\ user_factors'[run[i].factor_id].status = 3]_vars

LastTaskOf(fid) ==
    LET mine == {k \in DOMAIN tasks : tasks[k].factor_id = fid}
    IN CHOOSE k \in mine : \A j \in mine : j <= k

\* C4 (as claimed): once two run_factor calls on the same factor were both
\* admitted with the task ids allocated for them, the factor's
\* current_task_id is the task_id of the task created later, in every state
\* from then on.
C4_CurrentTaskIsLatest ==
    \A fid \in DOMAIN user_factors :
        (\A i \in Runs : run[i].result = "started" /\ run[i].factor_id = fid /\ run[i].task_id = i)
            => user_factors[fid].current_task_id = tasks[LastTaskOf(fid)].task_id

\* C5 (as claimed): (user_id, factor_name) is unique across user_factors.
C5_FactorNameUnique ==
    \A j, k \in DOMAIN user_factors :
        (user_factors[j].user_id = user_factors[k].user_id
            /\ user_factors[j].factor_name = user_factors[k].factor_name) => j = k

\* C9 (as claimed): a task with status succeeded (2) had the values
\* 1, 2, ..., 9 written to process_status in this order and nothing else, and
\* its record holds 9.
C9_StagesInOrder ==
    \A k \in DOMAIN tasks :
        tasks[k].status = 2 => (tasks[k].ps_in_order /\ tasks[k].process_status = 9)

\* C10 (as claimed): once a task record's status is succeeded (2) or failed
\* (3), no step writes any field of that record.
C10_TerminalTasksFrozen ==
    [][\A k \in DOMAIN tasks :
          tasks[k].status \in {2, 3} => tasks'[k] = tasks[k]]_vars

\* C11 (as claimed): when the background thread has ended after loading an
\* empty factor series, the task record has status failed (3),
\* process_status -1 and an error_message.
C11_EmptySeriesFailsTask ==
    \A i \in Runs :
        (run[i].outcome = "empty" /\ th[Wrk(i)].pc = "done") =>
            \A k \in TasksOf(run[i].task_id) :
                /\ tasks[k].status = 3
                /\ tasks[k].process_status = -1
                /\ tasks[k].error_message

(* ------------------------ store errors after the bundle ---------------- *)
\* DatabaseHandler.mongo_update does not catch the driver's exceptions
\* (database_handler.py lines 429-431): the process_status = 9 write
\* (factor_analysis line 462) raises into the handler of lines 472-487, the
\* status = 2 write (run_factor_analysis line 978) into the handler of lines
\* 1003-1031
StoreError(i) ==
    /\ th[Wrk(i)].pc \in {"w_ps9", "w_task_done"}
    /\ Emit(Wrk(i), run[i].task_id, "ERROR",
            IF th[Wrk(i)].pc = "w_ps9" THEN "w_fail_ps" ELSE "w_fail_task", th)
    /\ run' = [run EXCEPT ![i] = [@ EXCEPT !.raised = TRUE]]
    /\ UNCHANGED <<tasks, logs, stop_flag, call, classes, user_factors, results>>

StoreErrors == \E i \in Runs : StoreError(i)

NextStore == NextJob \/ StoreErrors

SpecStore == InitJob /\ [][NextStore]_vars

\* C12 (as claimed): in every reachable state a task record with status
\* failed (3) or process_status -1 has no bundle in the result store, store
\* errors on the writes after the bundle write included.
C12_NoBundleForFailedTask ==
    \A k \in DOMAIN tasks :
        (tasks[k].status = 3 \/ tasks[k].process_status = -1) => ~HasBundle(tasks[k].task_id)

(* --------------------------- _chunk_date_range ------------------------- *)
\* dates are datetime values counted in days from the first day of BaseYear;
\* a "%Y%m%d" string is the number YYYYMMDD
BaseYear == 2023
FirstDate == 20231201

IsLeap(y) == (y % 4 = 0 /\ y % 100 # 0) \/ y % 400 = 0

DaysInYear(y) == IF IsLeap(y) THEN 366 ELSE 365

DaysInMonth(y, m) ==
    CASE m \in {1, 3, 5, 7, 8, 10, 12} -> 31
      [] m \in {4, 6, 9, 11} -> 30
      [] m = 2 -> IF IsLeap(y) THEN 29 ELSE 28

RECURSIVE DaysBeforeYear(_)
DaysBeforeYear(y) == IF y = BaseYear THEN 0 ELSE DaysBeforeYear(y - 1) + DaysInYear(y - 1)

RECURSIVE DaysBeforeMonth(_, _)
DaysBeforeMonth(y, m) == IF m = 1 THEN 0 ELSE DaysBeforeMonth(y, m - 1) + DaysInMonth(y, m - 1)

\* datetime.strptime(s, "%Y%m%d")
strptime(s) ==
    LET y == s \div 10000
        m == (s \div 100) % 100
        d == s % 100
    IN DaysBeforeYear(y) + DaysBeforeMonth(y, m) + d

RECURSIVE YearOf(_, _)
YearOf(n, y) == IF n <= DaysInYear(y) THEN <<y, n>> ELSE YearOf(n - DaysInYear(y), y + 1)

RECURSIVE MonthOf(_, _, _)
MonthOf(n, y, m) == IF n <= DaysInMonth(y, m) THEN <<m, n>> ELSE MonthOf(n - DaysInMonth(y, m), y, m + 1)

\* dt.strftime("%Y%m%d")
strftime(n) ==
    LET yn == YearOf(n, BaseYear)
        md == MonthOf(yn[2], yn[1], 1)
    IN yn[1] * 10000 + md[1] * 100 + md[2]

\* the valid date strings from FirstDate to MaxSpan days later
DateStrings ==
    {s \in {y * 10000 + m * 100 + d : y \in {BaseYear, BaseYear + 1}, m \in 1..12, d \in 1..31} :
        /\ s % 100 <= DaysInMonth(s \div 10000, (s \div 100) % 100)
        /\ strptime(FirstDate) <= strptime(s)
        /\ strptime(s) <= strptime(FirstDate) + MaxSpan}

ChunkMonths == {1, 3}

Min(a, b) == IF a <= b THEN a ELSE b

\* line 246: the start of the next chunk with one day already covered twice
NextChunkStart_Overlap(chunk_end) == chunk_end

\* line 246: chunk_start = chunk_end + timedelta(days=1)
NextChunkStart(chunk_end) == chunk_end + 1

\* lines 230-233: chunk_end = min(chunk_start + timedelta(days=chunk_months * 30 - 1), end)
ChunkEnd(chunk_start, chunk_months, end) == Min(chunk_start + (chunk_months * 30 - 1), end)

\* lines 215-223: parse the dates; a single day is returned as one chunk
ChunkEntry ==
    /\ call.fn = "_chunk_date_range" /\ call.pc = "entry"
    /\ LET start == strptime(call.start_date)
           end == strptime(call.end_date)
       IN IF start = end
          THEN call' = [call EXCEPT !.pc = "returned", !.start = start, !.end = end,
                                    !.result = <<<<call.start_date, call.end_date>>>>]
          ELSE call' = [call EXCEPT !.pc = "loop", !.start = start, !.end = end,
                                    !.chunk_start = start]
    /\ UNCHANGED <<tasks, logvars, th, jobvars, classes>>

\* lines 226-248: one pass of the while loop
ChunkLoop ==
    /\ call.fn = "_chunk_date_range" /\ call.pc = "loop"
    /\ IF call.chunk_start <= call.end
       THEN LET chunk_end == ChunkEnd(call.chunk_start, call.chunk_months, call.end)
                chunks == Append(call.chunks, <<strftime(call.chunk_start), strftime(chunk_end)>>)
            IN IF chunk_end >= call.end
               THEN call' = [call EXCEPT !.pc = "returned", !.chunks = chunks, !.result = chunks]
               ELSE call' = [call EXCEPT !.chunks = chunks,
                                         !.chunk_start = NextChunkStart(chunk_end)]
       ELSE call' = [call EXCEPT !.pc = "returned", !.result = call.chunks]
    /\ UNCHANGED <<tasks, logvars, th, jobvars, classes>>

InitChunk ==
    /\ tasks = <<>>
    /\ logs = [t \in TaskIds |-> <<>>]
    /\ log_buffer = <<>>
    /\ buffer_lock = NoThread
    /\ handler_lock = [t \in TaskIds |-> NoThread]
    /\ stop_flag = FALSE
    /\ emitted = [t \in TaskIds |-> 0]
    /\ th = [p \in Threads |-> IdleThread]
    /\ user_factors = <<>>
    /\ results = <<>>
    /\ run = [i \in Runs |-> IdleRun]
    /\ classes = NoClasses
    /\ \E start_date \in DateStrings : \E end_date \in DateStrings : \E chunk_months \in ChunkMonths :
           call = [fn |-> "_chunk_date_range", pc |-> "entry", start_date |-> start_date,
                   end_date |-> end_date, chunk_months |-> chunk_months,
                   start |-> 0, end |-> 0, chunk_start |-> 0, chunks |-> <<>>, result |-> <<>>]

NextChunk == ChunkEntry \/ ChunkLoop

SpecChunk == InitChunk /\ [][NextChunk]_vars

FairChunk == SpecChunk /\ WF_vars(NextChunk)

ChunkReturned == call.fn = "_chunk_date_range" /\ call.pc = "returned"

\* the chunks are adjacent, non-overlapping and cover exactly [start, end]
ChunksCover(chunks, start_date, end_date) ==
    /\ chunks # <<>>
    /\ chunks[1][1] = start_date
    /\ chunks[Len(chunks)][2] = end_date
    /\ \A k \in DOMAIN chunks : strptime(chunks[k][1]) <= strptime(chunks[k][2])
    /\ \A k \in 1..(Len(chunks) - 1) : strptime(chunks[k + 1][1]) = strptime(chunks[k][2]) + 1
    /\ (start_date = end_date => chunks = <<<<start_date, end_date>>>>)

\* C13: for start <= end the call terminates, and what it returns is a
\* non-empty list of chunks that starts at start, ends exactly at end, has
\* chunk_start <= chunk_end in every chunk and each chunk beginning one day
\* after the previous one ends; for start = end it is the single chunk
\* (start, end).
C13_ChunksCoverRange ==
    /\ (strptime(call.start_date) <= strptime(call.end_date)) ~> ChunkReturned
    /\ [](ChunkReturned /\ strptime(call.start_date) <= strptime(call.end_date)
             => ChunksCover(call.result, call.start_date, call.end_date))

\* a range that was cut into three chunks or more
C13_SeveralChunks ==
    ChunkReturned /\ call.start_date # call.end_date /\ Len(call.result) >= 3

(* ------------------------------- shutdown ------------------------------ *)
\* shutdown, line 403: set the stop flag
ShutdownStop ==
    /\ th[Main].pc = "idle"
    /\ stop_flag' = TRUE
    /\ th' = [th EXCEPT ![Main] = [@ EXCEPT !.pc = "join"]]
    /\ UNCHANGED <<tasks, logs, log_buffer, buffer_lock, handler_lock, emitted, jobvars, call, classes>>

\* shutdown, lines 405-408: join(timeout=10) returns when the flush thread
\* has ended or when the 10 seconds are over; then flush_all is called
ShutdownJoin(timed_out) ==
    /\ th[Main].pc = "join"
    /\ timed_out \/ th[Flusher].pc = "stopped"
    /\ th' = [th EXCEPT ![Main] = [@ EXCEPT !.pc = "flush_all", !.ret = "shutdown"]]
    /\ UNCHANGED <<tasks, logvars, call, classes, jobvars>>

Shutdown == ShutdownStop \/ \E timed_out \in BOOLEAN : ShutdownJoin(timed_out)

\* one task's thread logs while the manager is shut down
LogOne == \E level \in Levels : th["p1"].n < MaxEmits /\ ProducerEmit("p1", level)

NextShutdown == LogOne \/ FlushStep \/ FlushLoop \/ Shutdown

SpecShutdown == InitLog /\ [][NextShutdown]_vars

\* C14 (as claimed, its first part): once shutdown has returned, add_log
\* calls are ignored: no step makes the queue of any task longer.
C14_IgnoredAfterShutdown ==
    [][th[Main].pc = "returned" =>
          \A t \in TaskIds : Len(BufferOf(log_buffer', t)) <= Len(BufferOf(log_buffer, t))]_vars

(* --------------------------- get_user_factor_list ---------------------- *)
\* a str is the sequence of its character codes
Digit(d) == 48 + d

\* the text "N.0%" of a ratio of N percent, 0 <= N <= 99
PercentString(n) ==
    (IF n >= 10 THEN <<Digit(n \div 10)>> ELSE <<>>) \o <<Digit(n % 10), 46, Digit(0), 37>>

\* the number of percent a ratio text stands for
RECURSIVE PercentValue(_, _)
PercentValue(s, acc) ==
    IF s = <<>> \/ Head(s) = 46 THEN acc ELSE PercentValue(Tail(s), acc * 10 + (Head(s) - 48))

\* str.__lt__: lexicographic order on the character codes
RECURSIVE LexLess(_, _)
LexLess(a, b) ==
    IF b = <<>> THEN FALSE
    ELSE IF a = <<>> THEN TRUE
    ELSE IF Head(a) # Head(b) THEN Head(a) < Head(b)
    ELSE LexLess(Tail(a), Tail(b))

\* line 251
valid_sort_fields ==
    {"created_at", "created_at", "return_ratio", "sharpe_ratio", "maximum_drawdown", "IC", "IR"}

\* the fields the route documents (user_factor_pro.py line 74)
DocumentedSortFields ==
    {"updated_at", "created_at", "return_ratio", "sharpe_ratio", "maximum_drawdown", "IC", "IR"}

SortFieldInputs == DocumentedSortFields \cup {"name"}
SortOrderInputs == {"asc", "desc", "up"}
PageSizeInputs == {1, 10}

StringFields == {"return_ratio", "maximum_drawdown"}

\* lines 300-350: the list item of one factor, metrics from the bundle of its
\* current_task_id when there is one
FactorInfo(fs, rs, k) ==
    LET base == [factor_id |-> k, created_at |-> fs[k].created_at, updated_at |-> fs[k].updated_at,
                 return_ratio |-> PercentString(0), sharpe_ratio |-> 0,
                 maximum_drawdown |-> PercentString(0), IC |-> 0, IR |-> 0]
        found == {r \in DOMAIN rs : rs[r].task_id = fs[k].current_task_id}
    IN IF fs[k].current_task_id # NoTask /\ found # {}
       THEN LET b == rs[CHOOSE r \in found : \A q \in found : r <= q]
            IN [base EXCEPT !.return_ratio = b.return_ratio, !.sharpe_ratio = b.sharpe_ratio,
                            !.maximum_drawdown = b.maximum_drawdown, !.IC = b.IC, !.IR = b.IR]
       ELSE base

\* the comparison list.sort applies to the keys getattr(x, sort_field)
KeyLess(a, b, sort_field) ==
    IF sort_field \in StringFields THEN LexLess(a[sort_field], b[sort_field])
    ELSE a[sort_field] < b[sort_field]

\* line 354: list.sort(key=..., reverse=reverse) is stable in both directions
RECURSIVE SortItems(_, _, _)
SortItems(items, sort_field, reverse) ==
    IF items = <<>> THEN <<>>
    ELSE LET x == items[Len(items)]
             sorted == SortItems(SubSeq(items, 1, Len(items) - 1), sort_field, reverse)
             Before(e) == IF reverse THEN ~KeyLess(e, x, sort_field) ELSE ~KeyLess(x, e, sort_field)
             n == Cardinality({j \in DOMAIN sorted : Before(sorted[j])})
         IN SubSeq(sorted, 1, n) \o <<x>> \o SubSeq(sorted, n + 1, Len(sorted))

\* lines 251-256: reject what is not in the lists
ListValidate ==
    /\ call.fn = "get_user_factor_list" /\ call.pc = "entry"
    /\ IF call.sort_field \notin valid_sort_fields \/ call.sort_order \notin {"asc", "desc"}
       THEN call' = [call EXCEPT !.pc = "returned", !.code = "400"]
       ELSE call' = [call EXCEPT !.pc = "collect"]
    /\ UNCHANGED <<tasks, logvars, th, jobvars, classes>>

\* lines 259-350: read the user's factors and build the items
ListCollect ==
    /\ call.fn = "get_user_factor_list" /\ call.pc = "collect"
    /\ IF user_factors = <<>>
       THEN call' = [call EXCEPT !.pc = "returned", !.code = "200", !.data = <<>>]
       ELSE call' = [call EXCEPT !.pc = "sort",
                        !.result_list = [k \in DOMAIN user_factors |-> FactorInfo(user_factors, results, k)]]
    /\ UNCHANGED <<tasks, logvars, th, jobvars, classes>>

\* lines 353-369: sort, cut the page out, return
ListSort ==
    /\ call.fn = "get_user_factor_list" /\ call.pc = "sort"
    /\ LET sorted == SortItems(call.result_list, call.sort_field, call.sort_order = "desc")
           start_idx == (call.page - 1) * call.page_size
           end_idx == Min(start_idx + call.page_size, Len(sorted))
       IN call' = [call EXCEPT !.pc = "returned", !.code = "200",
                               !.data = SubSeq(sorted, start_idx + 1, end_idx)]
    /\ UNCHANGED <<tasks, logvars, th, jobvars, classes>>

\* the stored factors and bundles the list is computed from
ListedFactors ==
    [created_at : {1, 2}, updated_at : {1, 2}, current_task_id : {NoTask, 1}]

ListedBundles ==
    {[task_id |-> 1, return_ratio |-> PercentString(r), maximum_drawdown |-> PercentString(r),
      sharpe_ratio |-> s, IC |-> s, IR |-> s] : r \in {9, 10}, s \in {0, 1}}

InitList ==
    /\ tasks = <<>>
    /\ logs = [t \in TaskIds |-> <<>>]
    /\ log_buffer = <<>>
    /\ buffer_lock = NoThread
    /\ handler_lock = [t \in TaskIds |-> NoThread]
    /\ stop_flag = FALSE
    /\ emitted = [t \in TaskIds |-> 0]
    /\ th = [p \in Threads |-> IdleThread]
    /\ \/ user_factors = <<>>
       \/ \E f1 \in ListedFactors : \E f2 \in ListedFactors : user_factors = <<f1, f2>>
    /\ \E b \in ListedBundles : results = <<b>>
    /\ run = [i \in Runs |-> IdleRun]
    /\ classes = NoClasses
    /\ \E sort_field \in SortFieldInputs : \E sort_order \in SortOrderInputs :
       \E page_size \in PageSizeInputs :
           call = [fn |-> "get_user_factor_list", pc |-> "entry", sort_field |-> sort_field,
                   sort_order |-> sort_order, page |-> 1, page_size |-> page_size,
                   result_list |-> <<>>, code |-> "none", data |-> <<>>]

NextList == ListValidate \/ ListCollect \/ ListSort

SpecList == InitList /\ [][NextList]_vars

\* the value the list is to be ordered by: the metric a ratio text stands for
SortValue(item, sort_field) ==
    IF sort_field \in StringFields THEN PercentValue(item[sort_field], 0) ELSE item[sort_field]

\* C15 (as claimed): a call with a sort_field of the documented seven and a
\* sort_order of asc or desc is answered with the factors ordered by the
\* value of that field, in their stored order within equal values.
C15_SortAccepted ==
    (/\ call.fn = "get_user_factor_list" /\ call.pc = "returned"
     /\ call.sort_field \in DocumentedSortFields
     /\ call.sort_order \in {"asc", "desc"})
        => /\ call.code = "200"
           /\ \A j \in 1..(Len(call.data) - 1) :
                 LET a == SortValue(call.data[j], call.sort_field)
                     b == SortValue(call.data[j + 1], call.sort_field)
                 IN /\ IF call.sort_order = "asc" THEN a <= b ELSE a >= b
                    /\ a = b => call.data[j].factor_id < call.data[j + 1].factor_id

\* no run_factor call is between its first and its last store write, and no
\* background thread is between its write of the task's terminal status and
\* its write of the factor's status
NoWriteInProgress ==
    \A i \in Runs :
        /\ th[Req(i)].pc \notin {"r_insert", "r_update", "r_validate"}
        /\ th[Wrk(i)].pc \notin {"w_factor_done", "w_fail_factor"}

\* C16 (as claimed, for runs with generated task ids and outside the windows
\* of NoWriteInProgress): while the factor's most recently created task is
\* running the factor's status is running (1), and once that task is
\* terminal the factor's status is that task's status.
C16_FactorMirrorsLatestTask ==
    \A fid \in DOMAIN user_factors :
        (/\ NoWriteInProgress
         /\ \A i \in Runs : run[i].task_id \in {NoTask, i}
         /\ \E k \in DOMAIN tasks : tasks[k].factor_id = fid)
            => user_factors[fid].status = tasks[LastTaskOf(fid)].status

\* C17 (as claimed): no reachable state has a thread waiting for buffer_lock
\* that can never get it; a thread that waits in _flush_task_logs for the
\* lock it holds itself waits forever.
C17_NoThreadBlockedForever ==
    \A p \in Threads : ~(th[p].pc = "flush_take" /\ buffer_lock = p)

\* the background threads, the request threads and the flushes they call are
\* scheduled fairly
FairJob == SpecJob /\ WF_vars(NextJob)

\* C18 (as claimed): every task record inserted by run_factor eventually has
\* a terminal status (2 or 3).
C18_TasksTerminate ==
    \A k \in 1..Cardinality(Runs) :
        (k \in DOMAIN tasks) ~> (k \in DOMAIN tasks /\ tasks[k].status \in {2, 3})

\* C19 (as claimed): from the moment run_factor has admitted a request until
\* its background execution writes stage 1, every record of the new task has
\* status running (1) and process_status 0, and the factor has
\* current_task_id = task_id and status running (1).
C19_AdmittedTaskAtStageZero ==
    \A i \in Runs :
        (run[i].result = "started" /\ th[Wrk(i)].pc \in {"w_load", "w_ps1"}) =>
            /\ TasksOf(run[i].task_id) # {}
            /\ \A k \in TasksOf(run[i].task_id) :
                  tasks[k].status = 1 /\ tasks[k].process_status = 0
            /\ user_factors[run[i].factor_id].current_task_id = run[i].task_id
            /\ user_factors[run[i].factor_id].status = 1

\* C20 (as claimed, for the emitting task's own entries): in the step in
\* which the emit of an urgent record returns, the urgent entry and every
\* entry the task's logger queued before it are in the log collection.
C20_UrgentFlushStoresAll ==
    [][\A p \in Producers :
          (th[p].ret = "emit" /\ th'[p].ret = "none") =>
              \A n \in 1..emitted[ProducerTask(p)] :
                  \E j \in DOMAIN logs'[ProducerTask(p)] : logs'[ProducerTask(p)][j].timestamp = n]_vars

\* a thread holds a batch of task t that it has taken from the queue and
\* not yet finished writing
FlushInProgress(t) ==
    \E p \in Threads :
        /\ th[p].pc \in {"flush_insert", "flush_update"}
        /\ th[p].fsave # <<>>
        /\ th[p].fsave[1].task_id = t

\* C21 (as claimed): whenever no flush of a task is in progress, the task
\* record's last_log_time and last_log_level are those of the most recently
\* enqueued entry among the entries persisted for the task.
C21_LastLogIsNewestPersisted ==
    \A k \in DOMAIN tasks :
        LET t == tasks[k].task_id
        IN (~FlushInProgress(t) /\ logs[t] # <<>>) =>
              \E j \in DOMAIN logs[t] :
                  /\ \A i \in DOMAIN logs[t] : logs[t][i].timestamp <= logs[t][j].timestamp
                  /\ tasks[k].last_log_time = logs[t][j].timestamp
                  /\ tasks[k].last_log_level = logs[t][j].level

(* ------------------------------ singletons ----------------------------- *)
\* the threads that use a singleton for the first time
Callers == Producers \cup {Main}

SetPc(p, pc) == [th EXCEPT ![p] = [@ EXCEPT !.pc = pc]]

InitSingleton(fn) ==
    /\ tasks = <<>>
    /\ logs = [t \in TaskIds |-> <<>>]
    /\ log_buffer = <<>>
    /\ buffer_lock = NoThread
    /\ handler_lock = [t \in TaskIds |-> NoThread]
    /\ stop_flag = FALSE
    /\ emitted = [t \in TaskIds |-> 0]
    /\ th = [p \in Threads |-> IdleThread]
    /\ user_factors = <<>>
    /\ results = <<>>
    /\ run = [i \in Runs |-> IdleRun]
    /\ call = [fn |-> fn, self |-> [p \in Callers |-> NoInstance],
               new |-> [p \in Callers |-> NoInstance]]
    /\ classes = NoClasses

\* DatabaseHandler.__new__, line 158: the test of cls._instance
DbNewCheck(p) ==
    /\ call.fn = "DatabaseHandler" /\ th[p].pc = "idle"
    /\ th' = SetPc(p, IF classes.db_instance = NoInstance THEN "new_create" ELSE "new_return")
    /\ UNCHANGED <<tasks, logvars, jobvars, call, classes>>

\* DatabaseHandler.__new__, line 159: create an object and store it in cls._instance
DbNewCreate(p) ==
    /\ th[p].pc = "new_create"
    /\ classes' = [classes EXCEPT
                      !.db_objects = Append(@, [initialized |-> FALSE, clients |-> 0]),
                      !.db_instance = Len(classes.db_objects) + 1]
    /\ th' = SetPc(p, "new_return")
    /\ UNCHANGED <<tasks, logvars, jobvars, call>>

\* DatabaseHandler.__new__, line 160: return cls._instance, which becomes self
DbNewReturn(p) ==
    /\ th[p].pc = "new_return"
    /\ call' = [call EXCEPT !.self[p] = classes.db_instance]
    /\ th' = SetPc(p, "init_check")
    /\ UNCHANGED <<tasks, logvars, jobvars, classes>>

\* DatabaseHandler.__init__, line 202: hasattr(self, 'initialized')
DbInitCheck(p) ==
    /\ th[p].pc = "init_check"
    /\ th' = SetPc(p, IF classes.db_objects[call.self[p]].initialized THEN "returned" ELSE "init_client")
    /\ UNCHANGED <<tasks, logvars, jobvars, call, classes>>

\* DatabaseHandler.__init__, lines 203-270: construct the MongoClient and ping
DbInitClient(p) ==
    /\ th[p].pc = "init_client"
    /\ classes' = [classes EXCEPT !.db_objects[call.self[p]].clients = @ + 1]
    /\ th' = SetPc(p, "init_done")
    /\ UNCHANGED <<tasks, logvars, jobvars, call>>

\* DatabaseHandler.__init__, line 272: self.initialized = True
DbInitDone(p) ==
    /\ th[p].pc = "init_done"
    /\ classes' = [classes EXCEPT !.db_objects[call.self[p]].initialized = TRUE]
    /\ th' = SetPc(p, "returned")
    /\ UNCHANGED <<tasks, logvars, jobvars, call>>

DbNew == \E p \in Callers : DbNewCheck(p) \/ DbNewCreate(p) \/ DbNewReturn(p)

DbInit == \E p \in Callers : DbInitCheck(p) \/ DbInitClient(p) \/ DbInitDone(p)

InitDb == InitSingleton("DatabaseHandler")

NextDb == DbNew \/ DbInit

SpecDb == InitDb /\ [][NextDb]_vars

RECURSIVE ClientsOf(_)
ClientsOf(objects) ==
    IF objects = <<>> THEN 0 ELSE objects[1].clients + ClientsOf(Tail(objects))

\* C22 (as claimed): at most one DatabaseHandler object and at most one
\* store client are ever constructed, and all calls that returned returned
\* the same instance.
C22_OneStoreClient ==
    call.fn = "DatabaseHandler" =>
        /\ Len(classes.db_objects) <= 1
        /\ ClientsOf(classes.db_objects) <= 1
        /\ \A p, q \in Callers :
              (th[p].pc = "returned" /\ th[q].pc = "returned") => call.self[p] = call.self[q]

\* get_instance, line 154: the test repeated under the lock, always true
SecondCheck_Always(instance) == TRUE

\* get_instance, line 154: the test repeated under the lock
SecondCheck(instance) == instance = NoInstance

\* get_instance, line 152: the test without the lock
GiCheck(p) ==
    /\ call.fn = "get_instance" /\ th[p].pc = "idle"
    /\ th' = SetPc(p, IF classes.lbm_instance = NoInstance THEN "gi_lock" ELSE "gi_return")
    /\ UNCHANGED <<tasks, logvars, jobvars, call, classes>>

\* get_instance, line 153: acquire cls._lock
GiLock(p) ==
    /\ th[p].pc = "gi_lock"
    /\ classes.lbm_lock = NoThread
    /\ classes' = [classes EXCEPT !.lbm_lock = p]
    /\ th' = SetPc(p, "gi_check2")
    /\ UNCHANGED <<tasks, logvars, jobvars, call>>

\* get_instance, line 154
GiCheck2(p) ==
    /\ th[p].pc = "gi_check2"
    /\ th' = SetPc(p, IF SecondCheck(classes.lbm_instance) THEN "gi_construct" ELSE "gi_unlock")
    /\ UNCHANGED <<tasks, logvars, jobvars, call, classes>>

\* get_instance, line 155 and __init__, lines 177-188: LogBatchManager()
\* constructs the object and starts its flush thread
GiConstruct(p) ==
    /\ th[p].pc = "gi_construct"
    /\ classes' = [classes EXCEPT !.lbm_objects = Append(@, [flush_thread |-> "started"])]
    /\ call' = [call EXCEPT !.new[p] = Len(classes.lbm_objects) + 1]
    /\ th' = SetPc(p, "gi_assign")
    /\ UNCHANGED <<tasks, logvars, jobvars>>

\* get_instance, line 155: cls._instance = the new object
GiAssign(p) ==
    /\ th[p].pc = "gi_assign"
    /\ classes' = [classes EXCEPT !.lbm_instance = call.new[p]]
    /\ th' = SetPc(p, "gi_unlock")
    /\ UNCHANGED <<tasks, logvars, jobvars, call>>

\* get_instance, line 153: leave the with block
GiUnlock(p) ==
    /\ th[p].pc = "gi_unlock"
    /\ classes' = [classes EXCEPT !.lbm_lock = NoThread]
    /\ th' = SetPc(p, "gi_return")
    /\ UNCHANGED <<tasks, logvars, jobvars, call>>

\* get_instance, line 156: return cls._instance
GiReturn(p) ==
    /\ th[p].pc = "gi_return"
    /\ call' = [call EXCEPT !.self[p] = classes.lbm_instance]
    /\ th' = SetPc(p, "returned")
    /\ UNCHANGED <<tasks, logvars, jobvars, classes>>

GetInstance ==
    \E p \in Callers :
        GiCheck(p) \/ GiLock(p) \/ GiCheck2(p) \/ GiConstruct(p) \/ GiAssign(p) \/ GiUnlock(p) \/ GiReturn(p)

InitGetInstance == InitSingleton("get_instance")

SpecGetInstance == InitGetInstance /\ [][GetInstance]_vars

\* C23: at most one LogBatchManager is ever constructed, so at most one
\* flush thread is started, and every get_instance call that returned
\* returned that one instance.
C23_OneFlusher ==
    call.fn = "get_instance" =>
        /\ Len(classes.lbm_objects) <= 1
        /\ \A p \in Callers :
              th[p].pc = "returned" =>
                  call.self[p] # NoInstance /\ call.self[p] = classes.lbm_instance

\* all three callers have returned, all of them raced for the lock
C23_AllCallersReturned ==
    /\ call.fn = "get_instance"
    /\ \A p \in Callers : th[p].pc = "returned"
    /\ Len(classes.lbm_objects) = 1
    /\ classes.lbm_objects[1].flush_thread = "started"

\* the only run_factor call made so far is call i
OnlyCall(i) == \A j \in Runs \ {i} : run[j].result = "none" /\ th[Req(j)].pc = "idle"

\* C26: when run_factor has returned a validation error (400) for a factor and
\* no other call touched the factor, the factor's status and current_task_id
\* are those it had before the call.
C26_RejectedRunLeavesFactor ==
    \A i \in Runs :
        (run[i].result = "400" /\ OnlyCall(i)) =>
            /\ user_factors[run[i].factor_id].status = run[i].factor.status
            /\ user_factors[run[i].factor_id].current_task_id = run[i].factor.current_task_id

\* C28: no two task records have the same task_id.
C28_TaskIdUnique ==
    \A j, k \in DOMAIN tasks : tasks[j].task_id = tasks[k].task_id => j = k

(* ------------------ update_factor during a running task ---------------- *)
\* request bodies of update_factor for the factor of InitJob: the definition
\* with another stock pool, and the full document as an editor sends it back
EditBodies ==
    {[user_id |-> "u1", factor_name |-> "f1", code_valid |-> TRUE,
      params |-> [ValidParams EXCEPT !.stock_pool = pool], status |-> 0] :
        pool \in {"000300", "000905"}}

\* update_factor on the factor, by either request slot
JobUpdate ==
    \E i \in Runs :
        \/ \E body \in EditBodies : UpdateFactorFind(i, 1, body)
        \/ UpdateFactorCheck(i)
        \/ UpdateFactorWrite(i)

NextEdit == NextJob \/ JobUpdate

SpecEdit == InitJob /\ [][NextEdit]_vars

\* C24: what the worker loaded for a task is the definition (code, stock_pool,
\* include_st) the factor held when run_factor created the task.
C24_TaskUsesFrozenDefinition ==
    \A i \in Runs :
        (run[i].result = "started" /\ run[i].loaded # NoLoaded) =>
            /\ run[i].loaded.found = "yes"
            /\ run[i].loaded.code_valid = run[i].factor.code_valid
            /\ run[i].loaded.params = run[i].factor.params

\* C27: a write of update_factor leaves the factor's status and
\* current_task_id as they were.
C27_UpdateKeepsRunState ==
    [][\A i \in Runs :
          (th[Req(i)].pc = "u_update" /\ th'[Req(i)].pc = "idle") =>
              /\ user_factors'[run[i].factor_id].status = user_factors[run[i].factor_id].status
              /\ user_factors'[run[i].factor_id].current_task_id =
                     user_factors[run[i].factor_id].current_task_id]_vars

(* ----------------------- store errors during a flush ------------------- *)
\* _flush_task_logs, lines 311-348: a mongo_insert of the loop or the
\* mongo_update after it raises; the handler of lines 346-348 prints the
\* error and the method returns.  The batch was removed from the queue at
\* lines 302-306 and is a local list.
FlushFail(p) ==
    /\ th[p].pc \in {"flush_insert", "flush_update"}
    /\ th' = [th EXCEPT ![p] = AfterFlushRec(th[p])]
    /\ handler_lock' = AfterFlushHandlerLock(th[p], handler_lock)
    /\ buffer_lock' = AfterFlushBufferLock(p, th[p], buffer_lock)
    /\ UNCHANGED <<tasks, logs, log_buffer, stop_flag, call, classes, emitted, jobvars>>

FlushFails == \E p \in Threads : FlushFail(p)

NextFlushFail == NextLog \/ FlushFails

SpecFlushFail == InitLog /\ [][NextFlushFail]_vars

\* entry n of task t is in the task's queue
Queued(t, n) ==
    \E j \in DOMAIN BufferOf(log_buffer, t) : BufferOf(log_buffer, t)[j].timestamp = n

\* entry n of task t is in a batch a thread is writing and its insert is
\* still to come
InBatch(t, n) ==
    \E p \in Threads :
        /\ th[p].pc = "flush_insert"
        /\ \E j \in th[p].fi..Len(th[p].fsave) :
              th[p].fsave[j].task_id = t /\ th[p].fsave[j].timestamp = n

\* the number of persisted copies of entry n of task t
Copies(t, n) == Cardinality({j \in DOMAIN logs[t] : logs[t][j].timestamp = n})

\* C25: every entry accepted by add_log is persisted at most once, and one
\* that is not persisted is queued or awaits its insert in a running flush,
\* store errors during a flush included.
C25_NoEntryLost ==
    \A t \in TaskIds : \A n \in 1..emitted[t] :
        /\ Copies(t, n) <= 1
        /\ Copies(t, n) = 0 => (Queued(t, n) \/ InBatch(t, n))

(* ------------------- factor_analysis: outlier trimming ----------------- *)
\* the date groups of the factor frame
MaxGroups == 2

\* the accepted values of params.extreme_value_processing; "biaozhuncha" and
\* "zhongweishu" stand for the Chinese words for standard deviation and median
StdSelections == {"std", "biaozhuncha"}
MedianSelections == {"median", "zhongweishu"}
Selections == StdSelections \cup MedianSelections

\* factor_analysis, lines 286-293: the function applied to every date group
TrimProcedure(extreme_value_processing) ==
    IF extreme_value_processing = "biaozhuncha" \/ extreme_value_processing = "std"
    THEN "ext_out_3std_list"
    ELSE "ext_out_3std_list"

\* factor_analysis, lines 286-293: groupby('date').apply, one group
TrimGroup(p) ==
    /\ call.fn = "factor_analysis" /\ th[p].pc = "idle"
    /\ call' = [call EXCEPT !.applied[p] = Append(@, TrimProcedure(call.selection[p]))]
    /\ th' = SetPc(p, IF Len(call.applied[p]) + 1 = MaxGroups THEN "z_score" ELSE "idle")
    /\ UNCHANGED <<tasks, logvars, jobvars, classes>>

\* factor_analysis, lines 295-297: z-score standardisation
ZScore(p) ==
    /\ th[p].pc = "z_score"
    /\ th' = SetPc(p, "returned")
    /\ UNCHANGED <<tasks, logvars, jobvars, call, classes>>

Preprocess == \E p \in Callers : TrimGroup(p) \/ ZScore(p)

InitTrim ==
    /\ tasks = <<>>
    /\ logs = [t \in TaskIds |-> <<>>]
    /\ log_buffer = <<>>
    /\ buffer_lock = NoThread
    /\ handler_lock = [t \in TaskIds |-> NoThread]
    /\ stop_flag = FALSE
    /\ emitted = [t \in TaskIds |-> 0]
    /\ th = [p \in Threads |-> IdleThread]
    /\ user_factors = <<>>
    /\ results = <<>>
    /\ run = [i \in Runs |-> IdleRun]
    /\ \E selection \in [Callers -> Selections] :
           call = [fn |-> "factor_analysis", selection |-> selection,
                   applied |-> [p \in Callers |-> <<>>]]
    /\ classes = NoClasses

SpecTrim == InitTrim /\ [][Preprocess]_vars

\* the procedure the selection stands for
SelectedProcedure(selection) ==
    IF selection \in StdSelections THEN "ext_out_3std_list" ELSE "ext_out_mad"

\* C29: every date group is trimmed with the procedure the user selected
\* (3-sigma for std, median-MAD for median), so an analysis with a std
\* selection and one with a median selection never apply the same procedure.
C29_TrimmingAsSelected ==
    call.fn = "factor_analysis" =>
        /\ \A p \in Callers : \A j \in DOMAIN call.applied[p] :
              call.applied[p][j] = SelectedProcedure(call.selection[p])
        /\ \A p, q \in Callers :
              (call.selection[p] \in StdSelections /\ call.selection[q] \in MedianSelections) =>
                  Range(call.applied[p]) \cap Range(call.applied[q]) = {}

(* ----------------------------- get_market_data ------------------------- *)
\* the stock_market collection: dates are day numbers, st says that the
\* name contains "ST"
MaxDay == 4
Symbols == {"A", "B"}
stock_market ==
    <<[date |-> 1, symbol |-> "A", st |-> FALSE, index_component |-> "100"],
      [date |-> 2, symbol |-> "B", st |-> TRUE, index_component |-> "100"],
      [date |-> 3, symbol |-> "A", st |-> TRUE, index_component |-> "010"],
      [date |-> 3, symbol |-> "B", st |-> FALSE, index_component |-> "100"],
      [date |-> 4, symbol |-> "A", st |-> FALSE, index_component |-> "100"]>>

RECURSIVE SelectRows(_, _, _)
\* collection.find(query): the rows from index k on for which Matches holds
SelectRows(rows, k, matches) ==
    IF k > Len(rows) THEN <<>>
    ELSE (IF k \in matches THEN <<rows[k]>> ELSE <<>>) \o SelectRows(rows, k + 1, matches)

\* _get_chunk_data, lines 317-341: the query is built from the chunk's dates,
\* the pool indicator and the ST switch; query_params['symbols'] is read at
\* line 311
ChunkQuery(chunk_dates, query_params) ==
    {k \in DOMAIN stock_market :
        /\ IF chunk_dates[1] = chunk_dates[2]
           THEN stock_market[k].date = chunk_dates[1]
           ELSE stock_market[k].date >= chunk_dates[1] /\ stock_market[k].date <= chunk_dates[2]
        /\ (query_params.indicator = "000300" => stock_market[k].index_component = "100")
        /\ (~query_params.st => ~stock_market[k].st)}

\* _get_chunk_data, lines 388-404: the rows found
get_chunk_data(chunk_dates, query_params) ==
    SelectRows(stock_market, 1, ChunkQuery(chunk_dates, query_params))

\* get_market_data, lines 575-579: a future completes and its frame, when not
\* empty, is appended to dfs; as_completed yields in completion order
ChunkRead(k) ==
    /\ call.fn = "get_market_data" /\ call.pc = "collect"
    /\ k \in DOMAIN call.date_chunks /\ k \notin call.completed
    /\ LET chunk_df == get_chunk_data(call.date_chunks[k], call.query_params)
       IN call' = [call EXCEPT !.completed = @ \cup {k},
                               !.dfs = IF chunk_df # <<>> THEN Append(@, chunk_df) ELSE @]
    /\ UNCHANGED <<tasks, logvars, th, jobvars, classes>>

RECURSIVE concat(_)
\* pd.concat(dfs, ignore_index=True)
concat(dfs) == IF dfs = <<>> THEN <<>> ELSE Head(dfs) \o concat(Tail(dfs))

\* get_market_data, lines 581-594: None when nothing was found, otherwise
\* the concatenation of the frames
MarketDataReturn ==
    /\ call.fn = "get_market_data" /\ call.pc = "collect"
    /\ call.completed = DOMAIN call.date_chunks
    /\ call' = [call EXCEPT !.pc = "returned", !.final_df = concat(call.dfs)]
    /\ UNCHANGED <<tasks, logvars, th, jobvars, classes>>

GetMarketData == (\E k \in 1..MaxDay : ChunkRead(k)) \/ MarketDataReturn

\* the date chunks of [1, MaxDay] split after the days of `cuts`
RECURSIVE DateChunks(_, _)
DateChunks(from, cuts) ==
    IF cuts = {}
    THEN <<<<from, MaxDay>>>>
    ELSE LET c == CHOOSE x \in cuts : \A y \in cuts : x <= y
         IN <<<<from, c>>>> \o DateChunks(c + 1, cuts \ {c})

\* get_market_data, lines 539-559: the arguments and the date chunks
InitMarket ==
    /\ tasks = <<>>
    /\ logs = [t \in TaskIds |-> <<>>]
    /\ log_buffer = <<>>
    /\ buffer_lock = NoThread
    /\ handler_lock = [t \in TaskIds |-> NoThread]
    /\ stop_flag = FALSE
    /\ emitted = [t \in TaskIds |-> 0]
    /\ th = [p \in Threads |-> IdleThread]
    /\ user_factors = <<>>
    /\ results = <<>>
    /\ run = [i \in Runs |-> IdleRun]
    /\ classes = NoClasses
    /\ \E symbols \in (SUBSET Symbols) \ {{}} : \E indicator \in {"000985", "000300"} :
       \E st \in BOOLEAN : \E cuts \in SUBSET (1..(MaxDay - 1)) :
           call = [fn |-> "get_market_data", pc |-> "collect",
                   query_params |-> [symbols |-> symbols, indicator |-> indicator, st |-> st],
                   date_chunks |-> DateChunks(1, cuts), completed |-> {}, dfs |-> <<>>,
                   final_df |-> <<>>]

SpecMarket == InitMarket /\ [][GetMarketData]_vars

\* the stored rows the call asks for: of the given symbols and passing the
\* pool and ST filters (every stored date is in [start_date, end_date])
Wanted(query_params) ==
    {k \in DOMAIN stock_market :
        /\ stock_market[k].symbol \in query_params.symbols
        /\ (query_params.indicator = "000300" => stock_market[k].index_component = "100")
        /\ (~query_params.st => ~stock_market[k].st)}

\* C30: what get_market_data returns for a symbols argument has only rows of
\* those symbols, and has each stored row of those symbols that passes the
\* pool and ST filters exactly once, in every completion order of the chunks.
C30_RowsOfRequestedSymbols ==
    (call.fn = "get_market_data" /\ call.pc = "returned") =>
        /\ \A j \in DOMAIN call.final_df : call.final_df[j].symbol \in call.query_params.symbols
        /\ \A k \in Wanted(call.query_params) :
              Cardinality({j \in DOMAIN call.final_df : call.final_df[j] = stock_market[k]}) = 1

====
